---- MODULE Spec2Model ----
(***************************************************************************)
(* Model of the dexter graceful-shutdown coordinator.                      *)
(*                                                                         *)
(*   Target  (src/target.go)          closers, channels, wait group, kill  *)
(*   Dexter  (src/unnamed/part_000)   targets, signal channel, WaitAndKill *)
(*   workers (src/dexter_test.go)     goroutines ranging over a channel    *)
(*   Dexter  (src/dexter.go)          the flat Dexter with keepAlive       *)
(*   workers (src/unnamed/part_001)   goroutines that call Add themselves  *)
(*                                                                         *)
(* Spec is the staged Dexter with a caller that registers fresh resources  *)
(* and tracks each target once; SpecWide adds a caller that registers      *)
(* again, or registers nil, receive-only and closed channels; SpecRace     *)
(* adds workers that count themselves; SpecFlat is the flat Dexter.        *)
(*                                                                         *)
(* The force-kill timer and the exit hook are used by                      *)
(* src/dexter_test.go (TestForceKillInterval) but the revision of          *)
(* WaitAndKill that implements them is not among the sources; that part    *)
(* (ArmTimer, StopTimer, Timeout) follows spec.md section 4.2.             *)
(***************************************************************************)
EXTENDS Integers, Sequences, FiniteSets, TLC

\* ------------------------------------------------------------------ bounds
NumTargets == 2      \* targets the caller creates with NewTarget
MaxCalls   == 3      \* registrations (closers, channels, stuck workers) the caller makes

Targets == 1..NumTargets
Slots   == 1..MaxCalls

VARIABLES
    monitored,    \* Target.monitored : [Targets -> Seq(closer)]
    channels,     \* Target.channels  : [Targets -> Seq(value)]
    wg,           \* Target.wg        : [Targets -> Int], the WaitGroup counter
    targets,      \* Dexter.targets   : Seq(Targets)
    pc,           \* position of the goroutine that calls WaitAndKill
    idx,          \* index of the range loop over d.targets
    pos,          \* index of the range loop inside Target.kill
    wpc,          \* position of the worker goroutine started for channel i of target t
    stuck,        \* goroutines per target that were counted with Add and never call Done
    closedChans,  \* the channels the runtime holds as closed
    closeLog,     \* history: every Close issued by kill, in order
    killLog,      \* history: the targets kill was invoked on, in order
    keepAlive,    \* Dexter.keepAlive of the flat (single-stage) Dexter
    sigLost,      \* a signal was dropped and WaitAndKill has received none since
    sigRecv,      \* signals received from Dexter.waiter
    timer,        \* the force-kill timer
    exitCodes,    \* history: the codes the exit hook was invoked with
    ret           \* the caller's latest call, when it was TrackChannel: value and result

vars == <<monitored, channels, wg, targets, pc, idx, pos, wpc, stuck, closedChans,
          closeLog, killLog, keepAlive, sigLost, sigRecv, timer, exitCodes, ret>>

targetVars == <<monitored, channels, wg>>
coordVars  == <<targets, pc, idx, pos>>
killVars   == <<closedChans, closeLog>>
workerVars == <<wpc, stuck>>
sigVars    == <<sigLost, sigRecv>>
exitVars   == <<timer, exitCodes>>

\* ------------------------------------------------------------------ values
\* The values a caller hands to TrackChannel / TrackCloser.  A freshly made
\* object is named by the target and the slot it is registered in.
Chan(t, i)   == [kind |-> "chan",   t |-> t, i |-> i]     \* make(chan T)
Closer(t, i) == [kind |-> "closer", t |-> t, i |-> i]     \* an io.Closer
IntValue     == [kind |-> "int",    t |-> 0, i |-> 0]     \* a value that is no channel
NilValue     == [kind |-> "nil",    t |-> 0, i |-> 0]     \* the nil interface value

\* var c chan T: a nil channel.
NilChan == [kind |-> "chan", t |-> 0, i |-> 0]

\* (<-chan T)(c): the channel c handed over as a receive-only channel.
RecvOnly(c) == [c EXCEPT !.kind = "<-chan"]

\* The channel a channel value refers to.
Underlying(v) == IF v.kind = "<-chan" THEN [v EXCEPT !.kind = "chan"] ELSE v

\* The caller's latest call was not TrackChannel.
NoCall == [t |-> 0, arg |-> NilValue, err |-> "none"]

\* reflect.TypeOf(v): nil for the nil interface, else the dynamic type.
TypeOf(v) == IF v.kind = "nil" THEN "nil" ELSE v.kind

\* reflect.Type.Kind(): chan T and <-chan T are both of kind Chan.
KindOf(type) == IF type \in {"chan", "<-chan"} THEN "chan" ELSE type

Range(s) == {s[i] : i \in 1..Len(s)}

\* Registration calls made so far (the caller's budget).
RECURSIVE CallsOf(_)
CallsOf(S) ==
    IF S = {} THEN 0
    ELSE LET t == CHOOSE x \in S : TRUE
         IN  Len(monitored[t]) + Len(channels[t]) + stuck[t] + CallsOf(S \ {t})

Calls == CallsOf(Targets)

\* The process runs until it panics or the exit hook ends it.
ProcessAlive == pc \notin {"panicked", "forcekilled"}

\* ------------------------------------------------------------------ Init
\* NewTarget: an empty target.
NewTarget == [monitored |-> <<>>, channels |-> <<>>, wg |-> 0]

\* NewDexter: no targets; the signal channel is subscribed.
NewDexter == [targets |-> <<>>]

Init ==
    /\ monitored = [t \in Targets |-> NewTarget.monitored]
    /\ channels = [t \in Targets |-> NewTarget.channels]
    /\ wg = [t \in Targets |-> NewTarget.wg]
    /\ targets = NewDexter.targets
    /\ pc = "setup"
    /\ idx = 0
    /\ pos = 0
    /\ wpc = [t \in Targets |-> [i \in Slots |-> "none"]]
    /\ stuck = [t \in Targets |-> 0]
    /\ closedChans = {}
    /\ closeLog = <<>>
    /\ killLog = <<>>
    /\ keepAlive = TRUE
    /\ sigLost = FALSE
    /\ sigRecv = 0
    /\ timer = "unset"
    /\ exitCodes = <<>>
    /\ ret = NoCall

\* ------------------------------------------------------------------ Target
\* Mutant: TrackCloser also counts a goroutine on the target.
TrackCloserAndAdd(t, closer) ==
    /\ monitored' = [monitored EXCEPT ![t] = Append(@, closer)]
    /\ wg' = [wg EXCEPT ![t] = @ + 1]
    /\ UNCHANGED channels

\* Target.TrackCloser: append to t.monitored.
TrackCloser(t, closer) ==
    /\ monitored' = [monitored EXCEPT ![t] = Append(@, closer)]
    /\ UNCHANGED <<channels, wg>>

\* What a call of TrackChannel on target t with value arg came to:
\* err is "nil" or "error" when it returned, "panic" when it did not.
Returned(t, arg, err) == [t |-> t, arg |-> arg, err |-> err]

\* Target.TrackChannel: reflect.TypeOf(channel).Kind() == reflect.Chan decides.
\* TypeOf of the nil interface is the nil Type, and Kind() on it is a nil
\* dereference: the call panics.
TrackChannel(t, channel) ==
    IF TypeOf(channel) = "nil"
    THEN /\ ret' = Returned(t, channel, "panic")
         /\ pc' = "panicked"
         /\ UNCHANGED targetVars
    ELSE IF KindOf(TypeOf(channel)) = "chan"
    THEN /\ channels' = [channels EXCEPT ![t] = Append(@, channel)]
         /\ ret' = Returned(t, channel, "nil")
         /\ UNCHANGED <<monitored, wg, pc>>
    ELSE /\ ret' = Returned(t, channel, "error")
         /\ UNCHANGED <<targetVars, pc>>

\* Target.Add: sync.WaitGroup.Add.  (A counter driven below zero panics; Done
\* is called here only by goroutines that were counted with Add.)
Add(t, delta) == wg' = [wg EXCEPT ![t] = @ + delta]

\* Target.Done: sync.WaitGroup.Done.
Done(t) == Add(t, -1)

\* Mutant: Wait returns while one goroutine is still counted.
WaitOffByOne(t) == wg[t] <= 1

\* Mutant: Wait returns without looking at the counter.
WaitNoBlock(t) == wg[t] >= 0

\* Target.Wait: sync.WaitGroup.Wait returns when the counter is zero.
Wait(t) == wg[t] = 0

\* ------------------------------------------------------------------ caller
\* The caller's program before it calls WaitAndKill: it registers fresh
\* closers and channels, starts workers, and tracks targets, in any order.
CallerTrackCloser ==
    \E t \in Targets :
        /\ pc = "setup"
        /\ Calls < MaxCalls
        /\ TrackCloser(t, Closer(t, Len(monitored[t]) + 1))
        /\ ret' = NoCall
        /\ UNCHANGED <<coordVars, workerVars, killVars, sigVars, exitVars, killLog, keepAlive>>

CallerTrackChannel ==
    \E t \in Targets :
        \E v \in {Chan(t, Len(channels[t]) + 1), IntValue, NilValue} :
            /\ pc = "setup"
            /\ Calls < MaxCalls
            /\ TrackChannel(t, v)
            /\ UNCHANGED <<targets, idx, pos, workerVars, killVars, sigVars, exitVars, killLog, keepAlive>>

\* target.Add(1); go f(target, in)   with   f: defer Done; for range in {}
CallerStartWorker ==
    \E t \in Targets :
        \E i \in 1..Len(channels[t]) :
            /\ pc = "setup"
            /\ wpc[t][i] = "none"
            /\ Add(t, 1)
            /\ wpc' = [wpc EXCEPT ![t][i] = "ranging"]
            /\ ret' = NoCall
            /\ UNCHANGED <<monitored, channels, coordVars, stuck, killVars, sigVars, exitVars, killLog, keepAlive>>

\* target.Add(1); go f(target)   with   f: for { time.Sleep(...) }
CallerStartStuck ==
    \E t \in Targets :
        /\ pc = "setup"
        /\ Calls < MaxCalls
        /\ Add(t, 1)
        /\ stuck' = [stuck EXCEPT ![t] = @ + 1]
        /\ ret' = NoCall
        /\ UNCHANGED <<monitored, channels, coordVars, wpc, killVars, sigVars, exitVars, killLog, keepAlive>>

\* ------------------------------------------------------------------ Dexter
\* Dexter.Track: append to d.targets.
Track(target) == targets' = Append(targets, target)

\* The caller tracks each target once; targets are numbered in the order
\* they are tracked.
CallerTrack ==
    \E t \in Targets :
        /\ pc = "setup"
        /\ t = Len(targets) + 1
        /\ Track(t)
        /\ ret' = NoCall
        /\ UNCHANGED <<targetVars, pc, idx, pos, workerVars, killVars, sigVars, exitVars, killLog, keepAlive>>

\* Mutant: WaitAndKill starts the walk without receiving from d.waiter.
CallWaitAndKillNoReceive ==
    /\ pc = "setup"
    /\ pc' = "loop"
    /\ idx' = 1
    /\ ret' = NoCall
    /\ UNCHANGED <<targetVars, targets, pos, workerVars, killVars, sigVars, exitVars, killLog, keepAlive>>

\* WaitAndKill, entry: log the start line, then block in <-d.waiter.
CallWaitAndKill ==
    /\ pc = "setup"
    /\ pc' = "awaiting"
    /\ ret' = NoCall
    /\ UNCHANGED <<targetVars, targets, idx, pos, workerVars, killVars, sigVars, exitVars, killLog, keepAlive>>

\* The force-kill timer: armed when the signal is received, stopped when the
\* walk over the targets completes.
ArmTimer == "armed"

\* Mutant: the timer is left armed when WaitAndKill returns.
StopTimerForgotten(tm) == tm

StopTimer(tm) == IF tm = "armed" THEN "stopped" ELSE tm

\* The status the exit hook is invoked with on timeout.
ExitStatus == 1

\* The OS delivers SIGINT or SIGTERM while WaitAndKill is blocked in
\* <-d.waiter: the receive completes and the walk over d.targets starts.
ReceiveSignal ==
    /\ pc = "awaiting"
    /\ sigRecv' = sigRecv + 1
    /\ pc' = "loop"
    /\ idx' = 1
    /\ timer' = ArmTimer
    /\ sigLost' = FALSE
    /\ UNCHANGED <<targetVars, targets, pos, workerVars, killVars, exitCodes, ret, killLog, keepAlive>>

\* The OS delivers a signal while nothing receives from d.waiter: the channel
\* is unbuffered and os/signal sends without blocking, so the signal is dropped.
DropSignal ==
    /\ ProcessAlive
    /\ pc # "awaiting"
    /\ sigLost' = (sigLost \/ sigRecv = 0)
    /\ UNCHANGED <<targetVars, coordVars, workerVars, killVars, sigRecv, exitVars, ret, killLog, keepAlive>>

\* for _, target := range d.targets: the next target, or the end of the walk.
LoopHead ==
    /\ pc = "loop"
    /\ IF idx <= Len(targets)
       THEN /\ pc' = "closers"
            /\ pos' = 1
            /\ killLog' = Append(killLog, targets[idx])
            /\ UNCHANGED timer
       ELSE /\ pc' = "drained"
            /\ timer' = StopTimer(timer)
            /\ UNCHANGED <<pos, killLog>>
    /\ UNCHANGED <<targetVars, targets, idx, workerVars, killVars, sigVars, exitCodes, ret, keepAlive>>

\* Mutant: the closers are closed last to first.
CloserAtReversed(t, k) == monitored[t][Len(monitored[t]) - k + 1]

\* for _, val := range t.monitored  /  for _, channel := range t.channels
CloserAt(t, k) == monitored[t][k]

ChannelAt(t, k) == channels[t][k]

\* The entry of closeLog for one Close.
Closed(t, v, err) == [t |-> t, v |-> v, err |-> err]

\* Mutant: kill returns at the first Close that fails.
KillCloserAbortsOnError ==
    /\ pc = "closers"
    /\ LET t == targets[idx] IN
       IF pos <= Len(monitored[t])
       THEN \E err \in BOOLEAN :
                /\ closeLog' = Append(closeLog, Closed(t, CloserAt(t, pos), err))
                /\ IF err
                   THEN pc' = "wait" /\ UNCHANGED pos
                   ELSE pos' = pos + 1 /\ UNCHANGED pc
       ELSE /\ pc' = "channels"
            /\ pos' = 1
            /\ UNCHANGED closeLog
    /\ UNCHANGED <<targetVars, targets, idx, workerVars, closedChans, sigVars, exitVars, ret, killLog, keepAlive>>

\* Target.kill, first loop: val.Close() for each closer; the error is dropped.
KillCloser ==
    /\ pc = "closers"
    /\ LET t == targets[idx] IN
       IF pos <= Len(monitored[t])
       THEN \E err \in BOOLEAN :
                /\ closeLog' = Append(closeLog, Closed(t, CloserAt(t, pos), err))
                /\ pos' = pos + 1
                /\ UNCHANGED pc
       ELSE /\ pc' = "channels"
            /\ pos' = 1
            /\ UNCHANGED closeLog
    /\ UNCHANGED <<targetVars, targets, idx, workerVars, closedChans, sigVars, exitVars, ret, killLog, keepAlive>>

\* Mutant: kill closes the closers only and leaves the channels open.
KillChannelSkipped ==
    /\ pc = "channels"
    /\ pc' = "wait"
    /\ UNCHANGED <<targetVars, targets, idx, pos, workerVars, killVars, sigVars, exitVars, ret, killLog, keepAlive>>

\* reflect.Value.Close on channel value v panics for a nil channel and for a
\* closed channel.  For a receive-only channel it panics too in a runtime
\* whose reflect checks the direction, and closes the channel in one whose
\* reflect does not: both are outcomes.
ClosePanics(v) ==
    \/ v = NilChan
    \/ Underlying(v) \in closedChans
    \/ v.kind = "<-chan"

CloseSucceeds(v) ==
    /\ v # NilChan
    /\ Underlying(v) \notin closedChans

\* Target.kill, second loop: reflect.ValueOf(channel).Close() for each channel.
\* The log keeps a Close that panicked with err set.
KillChannel ==
    /\ pc = "channels"
    /\ LET t == targets[idx] IN
       IF pos <= Len(channels[t])
       THEN \/ /\ ClosePanics(ChannelAt(t, pos))
               /\ pc' = "panicked"
               /\ closeLog' = Append(closeLog, Closed(t, ChannelAt(t, pos), TRUE))
               /\ UNCHANGED <<pos, closedChans>>
            \/ /\ CloseSucceeds(ChannelAt(t, pos))
               /\ closedChans' = closedChans \cup {Underlying(ChannelAt(t, pos))}
               /\ closeLog' = Append(closeLog, Closed(t, ChannelAt(t, pos), FALSE))
               /\ pos' = pos + 1
               /\ UNCHANGED pc
       ELSE /\ pc' = "wait"
            /\ UNCHANGED <<pos, killVars>>
    /\ UNCHANGED <<targetVars, targets, idx, workerVars, sigVars, exitVars, ret, killLog, keepAlive>>

\* target.Wait() returns; the loop moves to the next target.
\* Mutant: the loop passes over the target after the one it waited for.
TargetWaitSkipsNext ==
    /\ pc = "wait"
    /\ Wait(targets[idx])
    /\ pc' = "loop"
    /\ idx' = idx + 2
    /\ UNCHANGED <<targetVars, targets, pos, workerVars, killVars, sigVars, exitVars, ret, killLog, keepAlive>>

TargetWait ==
    /\ pc = "wait"
    /\ Wait(targets[idx])
    /\ pc' = "loop"
    /\ idx' = idx + 1
    /\ UNCHANGED <<targetVars, targets, pos, workerVars, killVars, sigVars, exitVars, ret, killLog, keepAlive>>

\* Mutant: the exit hook returns and the walk goes on.
TimeoutWalkGoesOn ==
    /\ ProcessAlive
    /\ timer = "armed"
    /\ timer' = "fired"
    /\ exitCodes' = Append(exitCodes, ExitStatus)
    /\ UNCHANGED <<targetVars, coordVars, workerVars, killVars, sigVars, ret, killLog, keepAlive>>

\* Mutant: the exit hook is invoked with status 0.
TimeoutExitZero ==
    /\ ProcessAlive
    /\ timer = "armed"
    /\ timer' = "fired"
    /\ exitCodes' = Append(exitCodes, 0)
    /\ pc' = "forcekilled"
    /\ UNCHANGED <<targetVars, targets, idx, pos, workerVars, killVars, sigVars, ret, killLog, keepAlive>>

\* The force-kill window elapses with the timer armed: the exit hook is
\* invoked with a non-zero status and the walk is abandoned where it is.
Timeout ==
    /\ ProcessAlive
    /\ timer = "armed"
    /\ timer' = "fired"
    /\ exitCodes' = Append(exitCodes, ExitStatus)
    /\ pc' = "forcekilled"
    /\ UNCHANGED <<targetVars, targets, idx, pos, workerVars, killVars, sigVars, ret, killLog, keepAlive>>

\* ------------------------------------------------------------------ workers
\* for range in {}  ends when the channel is closed; the deferred
\* target.Done() runs as the goroutine returns.
Worker(t, i) ==
    /\ ProcessAlive
    /\ wpc[t][i] = "ranging"
    /\ Underlying(channels[t][i]) \in closedChans
    /\ Done(t)
    /\ wpc' = [wpc EXCEPT ![t][i] = "done"]
    /\ UNCHANGED <<monitored, channels, coordVars, stuck, killVars, sigVars, exitVars, ret, killLog, keepAlive>>

Workers == \E t \in Targets : \E i \in Slots : Worker(t, i)

\* ------------------------------------------------------------------ specifications
Caller == \/ CallerTrackCloser
          \/ CallerTrackChannel
          \/ CallerStartWorker
          \/ CallerStartStuck
          \/ CallerTrack
          \/ CallWaitAndKill

Coordinator == LoopHead \/ KillCloser \/ KillChannel \/ TargetWait

\* The program while the force-kill window does not elapse.
Next == Caller \/ ReceiveSignal \/ DropSignal \/ Coordinator \/ Workers

Spec == Init /\ [][Next]_vars

\* The program with a force-kill window that may elapse at any time.
NextFK == Next \/ Timeout

SpecFK == Init /\ [][NextFK]_vars

\* ------------------------------------------------------------------ any caller
\* A caller that also tracks a target again, hands TrackChannel a channel it
\* has registered before, a receive-only or a nil channel, and closes a
\* registered channel itself before it calls WaitAndKill.
Registered == UNION {Range(channels[t]) : t \in Targets}

WideCalls == Calls + (Len(targets) - Cardinality(Range(targets)))
                   + Cardinality(closedChans)

CallerTrackAgain ==
    \E t \in Range(targets) :
        /\ pc = "setup"
        /\ WideCalls < MaxCalls
        /\ Track(t)
        /\ ret' = NoCall
        /\ UNCHANGED <<targetVars, pc, idx, pos, workerVars, killVars, sigVars, exitVars, killLog, keepAlive>>

CallerTrackChannelAgain ==
    \E t \in Targets :
        \E v \in Registered \cup {RecvOnly(Underlying(c)) : c \in Registered \ {NilChan}}
                            \cup {NilChan} :
            /\ pc = "setup"
            /\ WideCalls < MaxCalls
            /\ TrackChannel(t, v)
            /\ UNCHANGED <<targets, idx, pos, workerVars, killVars, sigVars, exitVars, killLog, keepAlive>>

\* close(c) by the caller.
CallerCloseChannel ==
    \E c \in Registered \ {NilChan} :
        /\ pc = "setup"
        /\ WideCalls < MaxCalls
        /\ Underlying(c) \notin closedChans
        /\ closedChans' = closedChans \cup {Underlying(c)}
        /\ ret' = NoCall
        /\ UNCHANGED <<targetVars, coordVars, workerVars, closeLog, sigVars, exitVars, killLog, keepAlive>>

NextWide == Next \/ CallerTrackAgain \/ CallerTrackChannelAgain \/ CallerCloseChannel

SpecWide == Init /\ [][NextWide]_vars

\* ------------------------------------------------------ Add in the goroutine
\* go f(target, in)   with   f: target.Add(1); defer target.Done(); for range in {}
\* The goroutine is started without being counted; it counts itself when it
\* first runs.
CallerGoSelfAdd ==
    \E t \in Targets :
        \E i \in 1..Len(channels[t]) :
            /\ pc = "setup"
            /\ wpc[t][i] = "none"
            /\ wpc' = [wpc EXCEPT ![t][i] = "spawned"]
            /\ ret' = NoCall
            /\ UNCHANGED <<targetVars, coordVars, stuck, killVars, sigVars, exitVars, killLog, keepAlive>>

\* target.Add(1) as the goroutine's first statement, whenever the scheduler
\* first runs it: before, during or after the coordinator's Wait.
WorkerAdd(t, i) ==
    /\ ProcessAlive
    /\ wpc[t][i] = "spawned"
    /\ Add(t, 1)
    /\ wpc' = [wpc EXCEPT ![t][i] = "ranging"]
    /\ UNCHANGED <<monitored, channels, coordVars, stuck, killVars, sigVars, exitVars, ret, killLog, keepAlive>>

WorkerAdds == \E t \in Targets : \E i \in Slots : WorkerAdd(t, i)

NextRace == Next \/ CallerGoSelfAdd \/ WorkerAdds

SpecRace == Init /\ [][NextRace]_vars

\* ------------------------------------------------- the flat (one-stage) Dexter
\* Dexter of src/dexter.go keeps wg, channels and monitored itself, and
\* keepAlive next to them: the model holds the three at this index.
Flat == 1

\* Dexter.Alive
Alive == keepAlive

\* Dexter.TrackToKill: append to d.monitored.
TrackToKill(closable) ==
    /\ monitored' = [monitored EXCEPT ![Flat] = Append(@, closable)]
    /\ UNCHANGED <<channels, wg>>

\* Dexter.TrackChannelsToKill: the same check as Target.TrackChannel.
TrackChannelsToKill(channel) ==
    IF TypeOf(channel) = "nil"
    THEN /\ ret' = Returned(Flat, channel, "panic")
         /\ pc' = "panicked"
         /\ UNCHANGED targetVars
    ELSE IF KindOf(TypeOf(channel)) = "chan"
    THEN /\ channels' = [channels EXCEPT ![Flat] = Append(@, channel)]
         /\ ret' = Returned(Flat, channel, "nil")
         /\ UNCHANGED <<monitored, wg, pc>>
    ELSE /\ ret' = Returned(Flat, channel, "error")
         /\ UNCHANGED <<targetVars, pc>>

FlatTrackToKill ==
    /\ pc = "setup"
    /\ Calls < MaxCalls
    /\ TrackToKill(Closer(Flat, Len(monitored[Flat]) + 1))
    /\ ret' = NoCall
    /\ UNCHANGED <<coordVars, workerVars, killVars, sigVars, exitVars, killLog, keepAlive>>

FlatTrackChannelsToKill ==
    \E v \in {Chan(Flat, Len(channels[Flat]) + 1), IntValue, NilValue} :
        /\ pc = "setup"
        /\ Calls < MaxCalls
        /\ TrackChannelsToKill(v)
        /\ UNCHANGED <<targets, idx, pos, workerVars, killVars, sigVars, exitVars, killLog, keepAlive>>

\* go f(dex, in)   with   f: dex.Add(1); defer dex.Done(); for dex.Alive() { <-in }
FlatGo ==
    \E i \in 1..Len(channels[Flat]) :
        /\ pc = "setup"
        /\ wpc[Flat][i] = "none"
        /\ wpc' = [wpc EXCEPT ![Flat][i] = "spawned"]
        /\ ret' = NoCall
        /\ UNCHANGED <<targetVars, coordVars, stuck, killVars, sigVars, exitVars, killLog, keepAlive>>

\* dex.Add(1), the goroutine's first statement.
FlatWorkerAdd(i) ==
    /\ ProcessAlive
    /\ wpc[Flat][i] = "spawned"
    /\ Add(Flat, 1)
    /\ wpc' = [wpc EXCEPT ![Flat][i] = "check"]
    /\ UNCHANGED <<monitored, channels, coordVars, stuck, killVars, sigVars, exitVars, ret, killLog, keepAlive>>

\* for dex.Alive(): keepAlive is read without synchronisation with the write
\* in WaitAndKill, so once it is false the read yields false or the stale
\* true.  On false the loop ends and the deferred Done runs.
FlatWorkerAlive(i) ==
    /\ ProcessAlive
    /\ wpc[Flat][i] = "check"
    /\ \E alive \in (IF Alive THEN {TRUE} ELSE {TRUE, FALSE}) :
          IF alive
          THEN /\ wpc' = [wpc EXCEPT ![Flat][i] = "recv"]
               /\ UNCHANGED wg
          ELSE /\ wpc' = [wpc EXCEPT ![Flat][i] = "done"]
               /\ Done(Flat)
    /\ UNCHANGED <<monitored, channels, coordVars, stuck, killVars, sigVars, exitVars, ret, killLog, keepAlive>>

\* <-in: nothing is ever sent, the receive returns when the channel is closed.
FlatWorkerRecv(i) ==
    /\ ProcessAlive
    /\ wpc[Flat][i] = "recv"
    /\ Underlying(channels[Flat][i]) \in closedChans
    /\ wpc' = [wpc EXCEPT ![Flat][i] = "check"]
    /\ UNCHANGED <<targetVars, coordVars, stuck, killVars, sigVars, exitVars, ret, killLog, keepAlive>>

FlatWorkers == \E i \in Slots : FlatWorkerAdd(i) \/ FlatWorkerAlive(i) \/ FlatWorkerRecv(i)

\* WaitAndKill: <-d.waiter returns.
FlatReceiveSignal ==
    /\ pc = "awaiting"
    /\ sigRecv' = sigRecv + 1
    /\ sigLost' = FALSE
    /\ pc' = "closers"
    /\ pos' = 1
    /\ UNCHANGED <<targetVars, targets, idx, workerVars, killVars, exitVars, ret, killLog, keepAlive>>

\* WaitAndKill: val.Close() for each of d.monitored, the error dropped.
FlatCloseClosers ==
    /\ pc = "closers"
    /\ IF pos <= Len(monitored[Flat])
       THEN /\ \E err \in BOOLEAN :
                  closeLog' = Append(closeLog, Closed(Flat, CloserAt(Flat, pos), err))
            /\ pos' = pos + 1
            /\ UNCHANGED <<pc, closedChans>>
       ELSE /\ pc' = "channels"
            /\ pos' = 1
            /\ UNCHANGED killVars
    /\ UNCHANGED <<targetVars, targets, idx, workerVars, sigVars, exitVars, ret, killLog, keepAlive>>

\* WaitAndKill: reflect.ValueOf(channel).Close() for each of d.channels.
FlatCloseChannels ==
    /\ pc = "channels"
    /\ IF pos <= Len(channels[Flat])
       THEN \/ /\ ClosePanics(ChannelAt(Flat, pos))
               /\ pc' = "panicked"
               /\ closeLog' = Append(closeLog, Closed(Flat, ChannelAt(Flat, pos), TRUE))
               /\ UNCHANGED <<pos, closedChans>>
            \/ /\ CloseSucceeds(ChannelAt(Flat, pos))
               /\ closedChans' = closedChans \cup {Underlying(ChannelAt(Flat, pos))}
               /\ closeLog' = Append(closeLog, Closed(Flat, ChannelAt(Flat, pos), FALSE))
               /\ pos' = pos + 1
               /\ UNCHANGED pc
       ELSE /\ pc' = "stop"
            /\ UNCHANGED <<pos, killVars>>
    /\ UNCHANGED <<targetVars, targets, idx, workerVars, sigVars, exitVars, ret, killLog, keepAlive>>

\* WaitAndKill: d.keepAlive = false, after the closes.
FlatStopLoops ==
    /\ pc = "stop"
    /\ keepAlive' = FALSE
    /\ pc' = "wait"
    /\ UNCHANGED <<targetVars, targets, idx, pos, workerVars, killVars, sigVars, exitVars, ret, killLog>>

\* WaitAndKill: d.wg.Wait() returns, and WaitAndKill with it.
FlatWait ==
    /\ pc = "wait"
    /\ Wait(Flat)
    /\ pc' = "returned"
    /\ UNCHANGED <<targetVars, targets, idx, pos, workerVars, killVars, sigVars, exitVars, ret, killLog, keepAlive>>

FlatCaller == FlatTrackToKill \/ FlatTrackChannelsToKill \/ FlatGo \/ CallWaitAndKill

FlatWaitAndKill == FlatCloseClosers \/ FlatCloseChannels \/ FlatStopLoops \/ FlatWait

NextFlat == FlatCaller \/ FlatReceiveSignal \/ DropSignal \/ FlatWaitAndKill \/ FlatWorkers

SpecFlat == Init /\ [][NextFlat]_vars

\* The Go scheduler runs every runnable goroutine, and an armed timer fires.
Fairness ==
    /\ WF_vars(Coordinator)
    /\ \A t \in Targets : \A i \in Slots : WF_vars(Worker(t, i))

LiveSpec == Spec /\ Fairness

LiveSpecFK == SpecFK /\ Fairness /\ WF_vars(Timeout)

\* ------------------------------------------------------------------ properties
IsPrefix(a, b) == Len(a) <= Len(b) /\ SubSeq(b, 1, Len(a)) = a

\* What kill closes for target t, in the order it closes it.
Resources(t) == monitored[t] \o channels[t]

\* The values closed so far for target t, in the order of the closes.
LogOf(t) == SelectSeq(closeLog, LAMBDA e : e.t = t)

LogValues(t) == [k \in 1..Len(LogOf(t)) |-> LogOf(t)[k].v]

\* Every goroutine counted with Add on target t has called Done.
WorkersDone(t) ==
    /\ stuck[t] = 0
    /\ \A i \in Slots : wpc[t][i] \in {"none", "done"}

InKill == pc \in {"closers", "channels", "wait"}

\* C1: targets are killed strictly in the order they were tracked: while the
\* kill of the target at index idx runs, and for every close ever issued for
\* a target, each target tracked earlier has been killed completely, its
\* counter is zero and every worker counted on it has called Done.
C1_StagedOrder ==
    /\ InKill =>
          \A j \in 1..(idx - 1) :
              /\ wg[targets[j]] = 0
              /\ WorkersDone(targets[j])
              /\ LogValues(targets[j]) = Resources(targets[j])
    /\ \A k \in 1..Len(closeLog) :
          \A j \in 1..Len(targets) :
              (\E m \in (j + 1)..Len(targets) : targets[m] = closeLog[k].t)
                  => (wg[targets[j]] = 0 /\ WorkersDone(targets[j]))

\* A channel of the second target is closed after a worker of the first
\* target has called Done.
C1_Witness ==
    /\ Len(targets) >= 2
    /\ \E i \in Slots : wpc[targets[1]][i] = "done"
    /\ \E k \in 1..Len(closeLog) :
          closeLog[k].t = targets[2] /\ closeLog[k].v.kind = "chan"

\* Some target the walk has not passed yet holds a goroutine that never calls Done.
StuckAhead == \E j \in 1..Len(targets) : j >= idx /\ stuck[targets[j]] > 0

\* C2: once the signal is received and the timer is armed, a tracked target
\* whose counter never reaches zero does not block WaitAndKill forever: the
\* exit hook is invoked, once, with a non-zero status (ForceKilled).
C2_ForceKilled ==
    (timer = "armed" /\ StuckAhead)
        ~> (/\ pc = "forcekilled"
            /\ Len(exitCodes) = 1
            /\ \A k \in 1..Len(exitCodes) : exitCodes[k] # 0)

\* The exit hook was invoked while WaitAndKill waited for a target that holds
\* a goroutine that never calls Done.
C2_Witness ==
    /\ pc = "forcekilled"
    /\ idx \in 1..Len(targets)
    /\ stuck[targets[idx]] > 0
    /\ LogValues(targets[idx]) = Resources(targets[idx])
    /\ exitCodes # <<>>

\* Every worker counted on a tracked target ranges over a channel its target
\* tracks and calls Done when the loop ends.
WellBehaved == \A j \in 1..Len(targets) : stuck[targets[j]] = 0

\* C3: with well-behaved workers, once WaitAndKill has received the signal it
\* returns to its caller (Drained), every tracked channel closed and every
\* counter of a tracked target zero.
C3_Drains ==
    (sigRecv = 1 /\ WellBehaved)
        ~> (/\ pc = "drained"
            /\ \A j \in 1..Len(targets) :
                  /\ Range(channels[targets[j]]) \subseteq closedChans
                  /\ wg[targets[j]] = 0)

\* WaitAndKill has returned after two targets' workers left their loops.
C3_Witness ==
    /\ pc = "drained"
    /\ Len(targets) >= 2
    /\ \A j \in 1..2 : \E i \in Slots : wpc[targets[j]][i] = "done"

\* C4: before WaitAndKill has received a signal nothing is closed, the timer
\* is not armed and the exit hook is not invoked; the walk runs only after
\* exactly one signal was consumed, and no second one is ever consumed.
C4_NothingBeforeSignal ==
    /\ sigRecv \in {0, 1}
    /\ sigRecv = 0 =>
          /\ closeLog = <<>>
          /\ closedChans = {}
          /\ exitCodes = <<>>
          /\ timer = "unset"
          /\ pc \in {"setup", "awaiting", "panicked"}
    /\ (InKill \/ pc \in {"loop", "drained", "forcekilled"}) => sigRecv = 1

\* WaitAndKill is blocked with a tracked channel to close, and a signal that
\* arrived before it was called has been dropped.
C4_Witness ==
    /\ pc = "awaiting"
    /\ sigLost
    /\ sigRecv = 0
    /\ Len(targets) >= 1
    /\ channels[targets[1]] # <<>>
    /\ closedChans = {}

\* C5: a WaitAndKill that returns has stopped the timer and the exit hook is
\* never invoked, before or after the return; the exit hook is invoked only
\* while the walk over the targets is incomplete, and at most once.
C5_TwoOutcomes ==
    [][/\ pc' = "drained" => (timer' = "stopped" /\ exitCodes' = <<>>)
       /\ exitCodes' # exitCodes =>
             /\ InKill \/ pc = "loop"
             /\ exitCodes = <<>>
             /\ pc' = "forcekilled"]_vars

\* WaitAndKill returned after closing something, the timer stopped.
C5_Witness ==
    /\ pc = "drained"
    /\ timer = "stopped"
    /\ closeLog # <<>>
    /\ exitCodes = <<>>

\* C6: once the exit hook has been invoked the walk is abandoned where it is:
\* nothing more is closed, no worker is waited for, and the invocation never
\* reaches Drained; Drained is terminal too.
C6_Abandoned ==
    [][/\ exitCodes # <<>> =>
             /\ pc = "forcekilled" /\ pc' = "forcekilled"
             /\ closeLog' = closeLog
             /\ closedChans' = closedChans
             /\ idx' = idx /\ pos' = pos
       /\ pc = "drained" => (pc' = "drained" /\ closeLog' = closeLog)]_vars

\* The exit hook was invoked with a tracked target's resources still open.
C6_Witness ==
    /\ pc = "forcekilled"
    /\ \E j \in 1..Len(targets) :
          /\ Resources(targets[j]) # <<>>
          /\ LogValues(targets[j]) # Resources(targets[j])

\* C7: kill closes a target's closers in the order they were tracked, then
\* its channels in the order they were tracked, and has closed all of them
\* when the wait on the target's counter starts; nothing of the target is
\* closed after that.
C7_KillOrder ==
    /\ \A t \in Targets : IsPrefix(LogValues(t), Resources(t))
    /\ (pc \in {"wait", "loop", "drained"} \/ InKill) =>
          \A j \in 1..Len(targets) :
              (j < idx \/ (j = idx /\ pc = "wait"))
                  => LogValues(targets[j]) = Resources(targets[j])

\* The wait on a target starts after its closers and its two channels were closed.
C7_Witness ==
    /\ pc = "wait"
    /\ Len(monitored[targets[idx]]) >= 1
    /\ Len(channels[targets[idx]]) >= 2
    /\ LogValues(targets[idx]) = Resources(targets[idx])

\* Some Close issued by kill has returned an error.
CloseFailed == \E k \in 1..Len(closeLog) : closeLog[k].err

\* What the walk has closed when it stands at (pc, idx, pos), errors or not.
RECURSIVE ClosedUpTo(_)
ClosedUpTo(j) ==
    IF j = 0 THEN <<>> ELSE ClosedUpTo(j - 1) \o Resources(targets[j])

ExpectedLog ==
    IF pc = "closers"
    THEN ClosedUpTo(idx - 1) \o SubSeq(monitored[targets[idx]], 1, pos - 1)
    ELSE IF pc = "channels"
    THEN ClosedUpTo(idx - 1) \o monitored[targets[idx]]
            \o SubSeq(channels[targets[idx]], 1, pos - 1)
    ELSE IF pc = "wait"
    THEN ClosedUpTo(idx)
    ELSE ClosedUpTo(idx - 1)

\* C8: an error returned by a closer's Close changes nothing in the walk:
\* the closes issued are those of a walk without errors, so the rest of the
\* target and every later target is still closed, and a WaitAndKill that
\* returns has closed everything and waited for every target.
C8_CloseErrorIgnored ==
    (CloseFailed /\ pc \in {"loop", "closers", "channels", "wait", "drained"}) =>
        /\ [k \in 1..Len(closeLog) |-> closeLog[k].v] = ExpectedLog
        /\ pc = "drained" =>
              \A j \in 1..Len(targets) :
                  /\ LogValues(targets[j]) = Resources(targets[j])
                  /\ wg[targets[j]] = 0

\* WaitAndKill returned although the first Close failed; a channel of the
\* same target and a resource of the next target were closed after it.
C8_Witness ==
    /\ pc = "drained"
    /\ Len(targets) >= 2
    /\ Len(closeLog) >= 3
    /\ closeLog[1].err
    /\ closeLog[2].t = closeLog[1].t
    /\ closeLog[3].t = targets[2]

\* The runtime kind of a value: Invalid for the nil interface.
Kind(v) == IF v.kind = "nil" THEN "invalid" ELSE KindOf(v.kind)

\* C9: every call of TrackChannel with a value whose kind is not a channel
\* returns an error and leaves the target as it was; every call with a
\* channel returns nil and appends that channel to the target's list.
C9_TrackChannel ==
    [][(ret' # ret /\ ret'.err # "none") =>
          IF Kind(ret'.arg) # "chan"
          THEN /\ ret'.err = "error"
               /\ UNCHANGED targetVars
          ELSE /\ ret'.err = "nil"
               /\ channels' = [channels EXCEPT ![ret'.t] = Append(@, ret'.arg)]
               /\ UNCHANGED <<monitored, wg>>]_vars

\* C10: Wait returns only with the counter at zero, and with the counter at
\* zero (Add never called, or the last Done made) it does return.
C10_Wait ==
    /\ [][(pc = "wait" /\ pc' # "wait") => wg[targets[idx]] = 0]_vars
    /\ (pc = "wait" /\ wg[targets[idx]] = 0) ~> (pc # "wait")

\* Wait returned for a target on which Add was never called, and then for a
\* target whose worker had called Done.
C10_Witness ==
    /\ pc = "loop"
    /\ idx = 3
    /\ stuck[targets[1]] = 0
    /\ \A i \in Slots : wpc[targets[1]][i] = "none"
    /\ \E i \in Slots : wpc[targets[2]][i] = "done"

\* C11: whatever Track calls came before WaitAndKill, a target tracked more
\* than once included, kill is invoked at most once on each target.
C11_KillOncePerTarget ==
    \A i, j \in 1..Len(killLog) : killLog[i] = killLog[j] => i = j

\* The entries of the close log that are closes of a channel.
ChannelCloses == SelectSeq(closeLog, LAMBDA e : KindOf(e.v.kind) = "chan")

\* C12: one WaitAndKill closes no channel more than once, whether the channel
\* was registered twice on a target, on two targets, or its target tracked
\* twice; no close is issued on a channel that is closed already.
C12_ChannelClosedOnce ==
    /\ \A i, j \in 1..Len(ChannelCloses) :
          Underlying(ChannelCloses[i].v) = Underlying(ChannelCloses[j].v) => i = j
    /\ \A i \in 1..Len(ChannelCloses) :
          ~(ChannelCloses[i].err /\ Underlying(ChannelCloses[i].v) \in closedChans)

\* new is old with one value appended to the list of one target.
AppendedTo(old, new) ==
    \E t \in Targets :
        /\ Len(new[t]) = Len(old[t]) + 1
        /\ new = [old EXCEPT ![t] = Append(@, new[t][Len(new[t])])]

\* C13: TrackCloser, TrackChannel and Track are bookkeeping: a step that
\* changes a list appends one value to one list and leaves the other lists,
\* every counter, every worker and the open/closed state of every resource
\* as they were; a close happens only in the kill sequence of WaitAndKill.
C13_Bookkeeping ==
    [][/\ (monitored' # monitored \/ channels' # channels \/ targets' # targets) =>
            /\ \/ AppendedTo(monitored, monitored') /\ UNCHANGED <<channels, targets>>
               \/ AppendedTo(channels, channels') /\ UNCHANGED <<monitored, targets>>
               \/ /\ Len(targets') = Len(targets) + 1
                  /\ targets' = Append(targets, targets'[Len(targets')])
                  /\ UNCHANGED <<monitored, channels>>
            /\ UNCHANGED <<wg, killVars, workerVars, killLog>>
       /\ (killVars' # killVars) => pc \in {"closers", "channels"}]_vars

\* A closer, a channel and two targets were registered, and the kill sequence
\* then closed both resources.
C13_Witness ==
    /\ pc = "drained"
    /\ Len(targets) = 2
    /\ \E t \in Targets : monitored[t] # <<>>
    /\ \E t \in Targets : channels[t] # <<>>
    /\ Len(closeLog) = 2

\* The target under kill has no closer and no channel.
EmptyTarget == InKill /\ Resources(targets[idx]) = <<>>

\* C14: the kill of a target without closers and channels closes nothing and
\* changes no state; with its counter at zero the loop goes straight on to
\* the next target; with no target at all WaitAndKill returns once the signal
\* is received.
C14_EmptyKill ==
    /\ [][EmptyTarget =>
            /\ UNCHANGED <<targetVars, targets, killVars, workerVars, killLog>>
            /\ pc = "closers" => pc' \in {"closers", "channels"}
            /\ pc = "channels" => pc' \in {"channels", "wait"}
            /\ (pc = "wait" /\ pc' # "wait") => (pc' = "loop" /\ idx' = idx + 1)]_vars
    /\ \A k \in Targets :
          (EmptyTarget /\ idx = k /\ wg[targets[idx]] = 0) ~> (pc = "loop" /\ idx = k + 1)
    /\ [][(pc = "loop" /\ targets = <<>>) => pc' \in {"loop", "drained"}]_vars
    /\ (pc = "loop" /\ targets = <<>>) ~> (pc = "drained" /\ closeLog = <<>> /\ killLog = <<>>)

\* The first target had nothing registered, the loop went on and killed the
\* second, which had.
C14_Witness ==
    /\ pc = "drained"
    /\ Len(targets) = 2
    /\ Resources(targets[1]) = <<>>
    /\ wg[targets[1]] = 0
    /\ closeLog # <<>>

\* C15: every value TrackChannel accepts is closed by kill without failure:
\* no close of a value of channel kind panics, be it a nil channel, a
\* receive-only channel or a channel the caller closed.
C15_AcceptedIsClosable ==
    \A k \in 1..Len(closeLog) :
        KindOf(closeLog[k].v.kind) = "chan" => ~closeLog[k].err

\* C16: when WaitAndKill returns, every worker started for a tracked target
\* has called Done, whether the caller called Add(1) before it started the
\* worker or the worker calls Add(1) itself as its first statement.
C16_AllWorkersDone ==
    pc = "drained" =>
        \A j \in 1..Len(targets) :
            /\ stuck[targets[j]] = 0
            /\ \A i \in Slots : wpc[targets[j]][i] \in {"none", "done"}

\* C17: a signal delivered after NewDexter returned is not lost: WaitAndKill
\* is never blocked in its receive on d.waiter while a signal that was
\* delivered before it got there is gone.
C17_SignalNotLost == ~(pc = "awaiting" /\ sigLost)

\* Every closer and every channel of the flat Dexter has been closed.
FlatAllClosed ==
    /\ \A k \in 1..Len(monitored[Flat]) :
          \E n \in 1..Len(closeLog) : closeLog[n].v = monitored[Flat][k]
    /\ \A k \in 1..Len(channels[Flat]) : Underlying(channels[Flat][k]) \in closedChans

\* C18: in the flat Dexter Alive() is true as long as no signal has been
\* received and false once WaitAndKill has received one; having been false
\* it is never true again; and WaitAndKill returns only with the closers
\* and channels closed, keepAlive false and the counter at zero.
C18_Alive ==
    /\ [](sigRecv = 0 => Alive)
    /\ [](sigRecv > 0 => ~Alive)
    /\ [][~Alive => ~Alive']_vars
    /\ [][(pc # "returned" /\ pc' = "returned") =>
              (FlatAllClosed /\ ~keepAlive /\ wg[Flat] = 0)]_vars

====
